---------------------------- MODULE Spec2Model ----------------------------
(***************************************************************************)
(* Model of the Pongi collision core: the elastic response resolver        *)
(* (move_sphere_with_full_elastic_collision, game_lib/src/scenes.rs) and   *)
(* the GameplayScene frame that calls it.                                  *)
(*                                                                         *)
(* Numbers: the program computes in f32, and so does the model: every     *)
(* operation returns the f32 nearest to the exact result.                  *)
(*                                                                         *)
(* Builds: debug_assert! is compiled in when debug_assertions is TRUE      *)
(* (cargo's dev profile) and compiled out when it is FALSE (release).      *)
(***************************************************************************)
EXTENDS Integers, Sequences, FiniteSets, TLC

VARIABLES
  args,            \* the arguments of the resolver call under way
  call,            \* its activation record
  scene,           \* GameplayScene
  error_happened,  \* Globals::error_happened
  is_initialized,  \* GameContext::is_initialized
  last_frame,      \* history: the last frame's reset and delta_time
  frames,          \* history: the number of frames run
  calc,            \* a function of math.rs / lib.rs applied to an input
  debug_assertions \* cfg!(debug_assertions): the build the program runs in

Abs(n) == IF n < 0 THEN -n ELSE n


(***************************************************************************)
(* f32 arithmetic.  A number is <<M, E>>, standing for M * 2^E, with a     *)
(* mantissa of 24 bits (2^23 <= |M| < 2^24); zero is <<0, 1>>.  Every      *)
(* operation returns the f32 nearest to the exact result, ties to the even *)
(* mantissa, as IEEE 754 prescribes.  The exponent is not bounded: the     *)
(* program's values stay far from f32's largest and smallest numbers.      *)
(***************************************************************************)
Sign(n) == IF n < 0 THEN -1 ELSE 1

\* the number of bits by which 0 < A < 2^24 falls short of 24 bits
BitsShort(A) == CHOOSE k \in 0..23 : A * 2^k >= 8388608

\* M * 2^E for 0 < |M| < 2^24, the mantissa moved up by k bits
UpBy(M, E, k) == <<M * 2^k, E - k>>

\* M * 2^E for 0 < |M| < 2^24, the mantissa moved up to 24 bits
NormUp(M, E) == UpBy(M, E, BitsShort(Abs(M)))

\* s * M * 2^E for 0 <= M <= 2^24
Pack(s, M, E) ==
  IF M = 0 THEN <<0, 1>>
  ELSE IF M = 16777216 THEN <<s * 8388608, E + 1>>
  ELSE NormUp(s * M, E)

\* q + r / (2 * half), and a little more when sticky, to the nearest
\* integer, ties to even
RoundedUp(q, r, half, sticky) ==
  IF r > half \/ (r = half /\ (sticky \/ q % 2 = 1)) THEN q + 1 ELSE q

\* the number of bits by which 0 <= X < 2^28 exceeds 24 bits
ShiftFor(X) ==
  IF X >= 134217728 THEN 4 ELSE IF X >= 67108864 THEN 3
  ELSE IF X >= 33554432 THEN 2 ELSE IF X >= 16777216 THEN 1 ELSE 0

RoundShift(s, X, sticky, E, sh) ==
  IF sh = 0 THEN Pack(s, X, E)
  ELSE Pack(s, RoundedUp(X \div 2^sh, X % 2^sh, 2^(sh - 1), sticky), E + sh)

\* the f32 nearest to s * (X + e) * 2^E, where 0 < e < 1 when sticky and
\* e = 0 otherwise; X has more than 24 bits whenever sticky
Round(s, X, sticky, E) == RoundShift(s, X, sticky, E, ShiftFor(X))

\* the f32 of an integer
FromInt(n) == Round(Sign(n), Abs(n), FALSE, 0)

AbsGe(a, b) == a[2] > b[2] \/ (a[2] = b[2] /\ Abs(a[1]) >= Abs(b[1]))

\* A - B is the sum's magnitude in units of 2^E; rem # 0 stands for the
\* bits of the smaller operand that fall below the unit
AddAligned(s, A, B, rem, same, E) ==
  IF same THEN Round(s, A + B, rem # 0, E)
  ELSE IF rem = 0 THEN Round(s, A - B, FALSE, E)
  ELSE Round(s, A - B - 1, TRUE, E)

\* a + b for |a| >= |b| > 0: three guard bits below a's mantissa
AddOrdered(a, b, d) ==
  AddAligned(Sign(a[1]), 8 * Abs(a[1]),
             IF d >= 28 THEN 0 ELSE (8 * Abs(b[1])) \div 2^d,
             IF d >= 28 THEN 1 ELSE (8 * Abs(b[1])) % 2^d,
             Sign(a[1]) = Sign(b[1]), a[2] - 3)

FAdd(a, b) ==
  IF a[1] = 0 THEN b
  ELSE IF b[1] = 0 THEN a
  ELSE IF AbsGe(a, b) THEN AddOrdered(a, b, a[2] - b[2])
  ELSE AddOrdered(b, a, b[2] - a[2])

\* the product of two mantissas, hi * 2^24 + mid * 2^12 + lo, in units of
\* 2^20
MulRound(s, top, low, E) ==
  Round(s, top + (low \div 1048576), low % 1048576 # 0, E)
MulSum(s, hi, mid, lo, E) ==
  MulRound(s, 16 * hi + (mid \div 256), (mid % 256) * 4096 + lo, E)
MulParts(s, ah, al, bh, bl, E) ==
  MulSum(s, ah * bh, ah * bl + al * bh, al * bl, E)
MulAbs(s, A, B, E) ==
  MulParts(s, A \div 4096, A % 4096, B \div 4096, B % 4096, E)

FMul(a, b) ==
  IF a[1] = 0 \/ b[1] = 0 THEN <<0, 1>>
  ELSE MulAbs(Sign(a[1]) * Sign(b[1]), Abs(a[1]), Abs(b[1]), a[2] + b[2] + 20)

\* k more bits of the quotient: qr is the quotient so far and the
\* remainder, D < 2^24 the divisor, k <= 7
DivBits(qr, D, k) ==
  <<qr[1] * 2^k + ((qr[2] * 2^k) \div D), (qr[2] * 2^k) % D>>

\* the quotient of the mantissas to 26 bits after the point
DivRound(s, qr, E) == Round(s, qr[1], qr[2] # 0, E)
DivAbs(s, A, B, E) ==
  DivRound(s, DivBits(DivBits(DivBits(DivBits(<<A \div B, A % B>>, B, 7), B, 7), B, 6), B, 6), E)

\* a / b for b # 0
FDiv(a, b) ==
  IF a[1] = 0 THEN <<0, 1>>
  ELSE DivAbs(Sign(a[1]) * Sign(b[1]), Abs(a[1]), Abs(b[1]), a[2] - b[2] - 26)

\* The square root digit by digit, b bits at a time.  pr = <<p, r>>: the
\* root so far and the remainder, the radicand so far being p^2 + r.  The
\* next 2b bits of the radicand give the next b bits of the root, d: the
\* largest d with d * (2^(b+1) * p + d) <= rr, which is the quotient
\* rr / (2^(b+1) * p) or one less (p >= 2^(b-1)).
SqrtTake(p, rr, d, b) ==
  IF d * (2^(b + 1) * p + d) > rr
  THEN <<2^b * p + d - 1, rr - (d - 1) * (2^(b + 1) * p + d - 1)>>
  ELSE <<2^b * p + d, rr - d * (2^(b + 1) * p + d)>>
SqrtQuotient(p, rr, q, b) == SqrtTake(p, rr, IF q >= 2^b THEN 2^b - 1 ELSE q, b)
SqrtOver(p, rr, b) == SqrtQuotient(p, rr, rr \div (2^(b + 1) * p), b)
SqrtNext(pr, bits, b) == SqrtOver(pr[1], pr[2] * 4^b + bits, b)
SqrtDigits(pr, bits, b) == (CHOOSE one \in { SqrtNext(x, bits, b) : x \in {pr} } : TRUE)

\* the root of the leading bits of the mantissa, 2^7 <= hi < 2^9
SqrtLead(hi, p) == <<p, hi - p * p>>
SqrtHi(hi) == SqrtLead(hi, CHOOSE k \in 11..22 : k * k <= hi /\ hi < (k + 1) * (k + 1))

\* the root of M * 2^28 for 2^23 <= M < 2^25, and what remains
SqrtBits(M) ==
  SqrtDigits(SqrtDigits(SqrtDigits(SqrtDigits(SqrtDigits(
    SqrtHi(M \div 65536), (M \div 256) % 256, 4), M % 256, 4), 0, 7), 0, 5), 0, 2)

SqrtRound(pr, E) == Round(1, pr[1], pr[2] # 0, E)
SqrtEven(M, E) == SqrtRound(SqrtBits(M), (E \div 2) - 14)

\* f32::sqrt(a) for a >= 0
FSqrt(a) ==
  IF a[1] = 0 THEN <<0, 1>>
  ELSE IF a[2] % 2 = 0 THEN SqrtEven(a[1], a[2])
  ELSE SqrtEven(2 * a[1], a[2] - 1)

FNeg(a) == <<-a[1], a[2]>>
FLt(a, b) == FAdd(a, FNeg(b))[1] < 0

\* f32::floor(a)
FFloor(a) ==
  IF a[2] >= 0 THEN a
  ELSE IF a[2] <= -24 THEN FromInt(IF a[1] < 0 THEN -1 ELSE 0)
  ELSE FromInt(a[1] \div 2^(-a[2]))

(***************************************************************************)
(* Numbers.  Values that are used more than once are handed on as          *)
(* operator parameters.                                                    *)
(***************************************************************************)
\* the f32 nearest to n/d, d # 0
Q(n, d) ==
  (CHOOSE one \in { FDiv(x, y) : x \in {FromInt(n)}, y \in {FromInt(d)} } : TRUE)

QInt(n) == FromInt(n)
QZero == <<0, 1>>
QOne == <<8388608, -23>>
QTwo == <<8388608, -22>>

QNeg(a) == <<-a[1], a[2]>>
QAbs(a) == <<Abs(a[1]), a[2]>>

\* The operands are values before the operation starts: wherever a
\* value is chosen from a set of one element, it is computed where the set
\* is built, before it is passed on.
QAdd(a, b) ==
  (CHOOSE one \in { FAdd(x, y) : x \in {a}, y \in {b} } : TRUE)
QSub(a, b) == QAdd(a, QNeg(b))

QMul(a, b) ==
  (CHOOSE one \in { FMul(x, y) : x \in {a}, y \in {b} } : TRUE)

\* a / b for b # 0
QDiv(a, b) ==
  (CHOOSE one \in { FDiv(x, y) : x \in {a}, y \in {b} } : TRUE)

QLt(a, b) == \E x \in {a}, y \in {b} : FLt(x, y)
QLe(a, b) == ~QLt(b, a)

\* f32::sqrt
QSqrt(a) == (CHOOSE one \in { FSqrt(x) : x \in {a} } : TRUE)

\* f32::max / f32::min
QMax(a, b) == IF QLt(a, b) THEN b ELSE a
QMin(a, b) == IF QLt(b, a) THEN b ELSE a

(***************************************************************************)
(* math.rs: epsilon, clamping                                              *)
(***************************************************************************)
EPSILON == Q(1, 1000000)

\* f32::abs(x) < EPSILON
is_effectively_zero(x) == QLt(QAbs(x), EPSILON)

\* what a failed debug_assert!(min <= max) leaves in place of a value: the
\* thread panics
AssertionFailed == <<"assertion failed: min <= max">>
Panicked(x) == Len(x) = 1

\* the panic unwinding through a function that returns a Vec2
Unwinding == [panicked |-> AssertionFailed[1]]
HasPanicked(v) == "panicked" \in DOMAIN v

\* the assertion is part of a debug build only
clamp(val, min, max) ==
  IF debug_assertions /\ QLt(max, min) THEN AssertionFailed
  ELSE QMax(min, QMin(val, max))

(***************************************************************************)
(* math.rs: Vec2 (Point, WorldPoint are the same type)                     *)
(***************************************************************************)
Vec2(x, y) == [x |-> x, y |-> y]
VZero == Vec2(QZero, QZero)
VInt(x, y) == Vec2(QInt(x), QInt(y))

VNeg(v) == Vec2(QNeg(v.x), QNeg(v.y))
VAdd(a, b) == Vec2(QAdd(a.x, b.x), QAdd(a.y, b.y))
VSub(a, b) == Vec2(QSub(a.x, b.x), QSub(a.y, b.y))
\* Mul<f32> for Vec2 and Mul<Vec2> for f32
VScale(v, s) == Vec2(QMul(v.x, s), QMul(v.y, s))
VDivScalar(v, s) == Vec2(QDiv(v.x, s), QDiv(v.y, s))
dot(a, b) == QAdd(QMul(a.x, b.x), QMul(a.y, b.y))
Cross(a, b) == QSub(QMul(a.x, b.y), QMul(a.y, b.x))

\* f32::sqrt(self.x * self.x + self.y * self.y)
magnitude(v) == QSqrt(QAdd(QMul(v.x, v.x), QMul(v.y, v.y)))

\* f32::sqrt((a.x - b.x) * (a.x - b.x) + (a.y - b.y) * (a.y - b.y))
distance(a, b) == magnitude(VSub(a, b))

\* self / self.magnitude()
normalized(v) == VDivScalar(v, magnitude(v))

\* mirror formula d' = d - 2 (d . n) n
reflected_on_normal(d, n) == VSub(d, VScale(n, QMul(QTwo, dot(d, n))))

(***************************************************************************)
(* math.rs: Rect and Line                                                  *)
(***************************************************************************)
Rect(left, right, bottom, top) ==
  [left |-> left, right |-> right, bottom |-> bottom, top |-> top]

RectInt(left, right, bottom, top) ==
  Rect(QInt(left), QInt(right), QInt(bottom), QInt(top))

Line(start, end) == [start |-> start, end |-> end]

\* the border walked the other way round: bottom, left, top, right
to_border_lines_reversed(r) ==
  << Line(Vec2(r.right, r.bottom), Vec2(r.left, r.bottom)),
     Line(Vec2(r.left, r.bottom), Vec2(r.left, r.top)),
     Line(Vec2(r.left, r.top), Vec2(r.right, r.top)),
     Line(Vec2(r.right, r.top), Vec2(r.right, r.bottom)) >>

\* the four border segments, in the order bottom, right, top, left
to_border_lines(r) ==
  << Line(Vec2(r.left, r.bottom), Vec2(r.right, r.bottom)),
     Line(Vec2(r.right, r.bottom), Vec2(r.right, r.top)),
     Line(Vec2(r.right, r.top), Vec2(r.left, r.top)),
     Line(Vec2(r.left, r.top), Vec2(r.left, r.bottom)) >>

(***************************************************************************)
(* collision.rs (not among the source files; modelled from the            *)
(* specification, sections 4.2 and 4.3)                                    *)
(***************************************************************************)
\* "a small constant" (section 4.4, step 2); its value is given nowhere, the
\* model takes 1/10
COLLISION_SAFETY_MARGIN == Q(1, 10)

\* the outward normal of border segment i is fixed by its position in
\* to_border_lines: bottom, right, top, left
SegmentNormal(i) ==
  CASE i = 1 -> VInt(0, -1)
    [] i = 2 -> VInt(1, 0)
    [] i = 3 -> VInt(0, 1)
    [] i = 4 -> VInt(-1, 0)

PrevSegment(i) == IF i = 1 THEN 4 ELSE i - 1
NextSegment(i) == IF i = 4 THEN 1 ELSE i + 1

\* the offset by which a corner shared by segments i and j moves outward
CornerOffset(i, j, radius) ==
  VScale(VAdd(SegmentNormal(i), SegmentNormal(j)), radius)

\* border segment i moved outward by the radius along its normal, its ends
\* carried along the neighbouring segments' normals so that adjacent offset
\* segments meet; it keeps the normal of the edge it derives from
ExpandedSegment(l, i, radius) ==
  [ line |-> Line(VAdd(l.start, CornerOffset(i, PrevSegment(i), radius)),
                  VAdd(l.end, CornerOffset(i, NextSegment(i), radius))),
    normal |-> SegmentNormal(i) ]

\* expand(rect, radius) -> ordered sequence of (Line, normal)
ExpandedBorder(lines, radius) ==
  << ExpandedSegment(lines[1], 1, radius), ExpandedSegment(lines[2], 2, radius),
     ExpandedSegment(lines[3], 3, radius), ExpandedSegment(lines[4], 4, radius) >>
RectSphereSum(rect, radius) == ExpandedBorder(to_border_lines(rect), radius)

NoHit == [hit |-> FALSE]

\* segment/segment intersection of the ray P + t R with the segment
\* Q + s S: t and s both in [0, 1]; no intersection when the determinant
\* R x S is within epsilon of zero.  t = (Q - P) x S / R x S; s, which is
\* (Q - P) x R / R x S, is computed as the position of the point P + t R
\* along the segment, (P + t R - Q) . S / S . S, the same number with
\* smaller intermediate values.
AlongSegment(point, seg, S) == QDiv(dot(VSub(point, seg.start), S), dot(S, S))
IntersectOn(t, s, point) ==
  IF QLe(QZero, s) /\ QLe(s, QOne)
  THEN [hit |-> TRUE, t |-> t, point |-> point]
  ELSE NoHit
IntersectPoint(seg, S, t, point) ==
  (CHOOSE one \in { IntersectOn(t, s, point) : s \in {AlongSegment(point, seg, S)} } : TRUE)
IntersectAt(ray, seg, R, S, t) ==
  IF QLe(QZero, t) /\ QLe(t, QOne)
  THEN (CHOOSE one \in { IntersectPoint(seg, S, t, point) :
                  point \in {VAdd(ray.start, VScale(R, t))} } : TRUE)
  ELSE NoHit
IntersectDet(ray, seg, R, S, PQ, det) ==
  IF is_effectively_zero(det) THEN NoHit
  ELSE (CHOOSE one \in { IntersectAt(ray, seg, R, S, t) : t \in {QDiv(Cross(PQ, S), det)} } : TRUE)
IntersectRS(ray, seg, R, S) ==
  (CHOOSE one \in { IntersectDet(ray, seg, R, S, PQ, det) :
             PQ \in {VSub(seg.start, ray.start)}, det \in {Cross(R, S)} } : TRUE)
Intersect(ray, seg) ==
  (CHOOSE one \in { IntersectRS(ray, seg, R, S) :
             R \in {VSub(ray.end, ray.start)}, S \in {VSub(seg.end, seg.start)} } : TRUE)

\* the selection turned around: the farthest hit
Later(t, best) == QLt(best, t)

\* the comparison without the epsilon: a hit earlier by a rounding error
\* replaces the first registered one
EarlierByAnything(t, best) == QLt(t, best)

\* a later hit replaces the best one so far only when it is earlier along
\* the ray and not tied with it: on equal t within epsilon the first
\* registered wins
Earlier(t, best) == QLt(t, best) /\ ~is_effectively_zero(QSub(best, t))

Nearer(best, k, i, normal, h) ==
  IF h.hit /\ (~best.hit \/ Earlier(h.t, best.t))
  THEN [hit |-> TRUE, t |-> h.t, shape |-> k, segment_index |-> i,
        intersection |-> [point |-> h.point, normal |-> normal]]
  ELSE best

NearerOnSegment(best, k, i, seg, ray) ==
  Nearer(best, k, i, seg.normal, Intersect(ray, seg.line))

\* the nearest hit among segments i..4 of shape k, whose expansion is sum,
\* given the best so far
RECURSIVE SweepSegments(_, _, _, _, _)
SweepSegments(sum, ray, k, i, best) ==
  IF i > 4 THEN best
  ELSE (CHOOSE one \in { SweepSegments(sum, ray, k, i + 1, nearer) :
                  nearer \in {NearerOnSegment(best, k, i, sum[i], ray)} } : TRUE)

RECURSIVE SweepShapes(_, _, _, _, _)
SweepShapes(mesh, ray, radius, k, best) ==
  IF k > Len(mesh) THEN best
  ELSE (CHOOSE one \in { SweepShapes(mesh, ray, radius, k + 1, nearest) :
                  nearest \in { SweepSegments(sum, ray, k, 1, best) :
                                  sum \in {RectSphereSum(mesh[k], radius)} } } : TRUE)

\* CollisionMesh::sweepcast_sphere(ray, radius) -> Option<SweepResult>
sweepcast_sphere(mesh, ray, radius) == SweepShapes(mesh, ray, radius, 1, NoHit)

(***************************************************************************)
(* scenes.rs: move_sphere_with_full_elastic_collision                      *)
(*                                                                         *)
(* The activation record of one call: pc is "entry" before line 387,       *)
(* "loop" at the head of the while loop (line 395), "ok" / "err" after     *)
(* the return.  num_queries and legs are history: the number of            *)
(* sweepcast_sphere queries made, and one entry per evaluation of the      *)
(* loop head: where the leg started, its direction, ray and remaining      *)
(* distance, what the query returned, and whether the body reflected.      *)
(***************************************************************************)
\* line 389
TravelDistance(speed, delta_time) == QMul(speed, delta_time)

\* lines 391-392 and 412
TravelRaycast(pos, travel_distance, dir) ==
  Line(pos, VAdd(pos, VScale(dir, QAdd(travel_distance, COLLISION_SAFETY_MARGIN))))

\* line 397
DistanceTillHit(collision, pos) == magnitude(VSub(collision.intersection.point, pos))

\* the safe distance without the margin
SafeDistanceWithoutMargin(distance_till_hit) == distance_till_hit

\* line 398
SafeCollisionPointDistance(distance_till_hit) ==
  QSub(distance_till_hit, COLLISION_SAFETY_MARGIN)

\* line 399: "We won't hit anything yet in this frame"
WontHitYet(travel_distance, safe_collision_point_distance) ==
  QLt(travel_distance, safe_collision_point_distance)

\* line 405
MovedToSafePoint(pos, safe_collision_point_distance, dir) ==
  VAdd(pos, VScale(dir, safe_collision_point_distance))

\* the direction turned by a quarter instead of mirrored
TurnedDir(vel, normal) == Vec2(QNeg(normalized(vel).y), normalized(vel).x)

\* lines 406-408
ReflectedDir(vel, normal) == reflected_on_normal(normalized(vel), normal)

\* a collision that loses half of the speed
DampedVel(dir, speed) == VScale(dir, QDiv(speed, QTwo))

\* the direction stored as the velocity, the speed forgotten
UnscaledVel(dir, speed) == dir

\* line 409
ReflectedVel(dir, speed) == VScale(dir, speed)

\* the whole travel distance spent at the first hit
NothingRemains(travel_distance, safe_collision_point_distance) == QZero

\* line 410
RemainingDistance(travel_distance, safe_collision_point_distance) ==
  QSub(travel_distance, safe_collision_point_distance)

\* other iteration limits
LoopLimitReachedAtTwo(debug_num_loops) == debug_num_loops = 2
LoopLimitReachedAtFour(debug_num_loops) == debug_num_loops = 4

\* line 415
LoopLimitReached(debug_num_loops) == debug_num_loops = 3

\* the final advance cut short by the margin
FinalPosShortOfMargin(pos, travel_distance, dir) ==
  VAdd(pos, VScale(dir, QSub(travel_distance, COLLISION_SAFETY_MARGIN)))

\* line 422
FinalPos(pos, travel_distance, dir) == VAdd(pos, VScale(dir, travel_distance))

\* lines 387-394
Entered(a, speed, dir, travel_distance) ==
  [ pc |-> "loop", pos |-> a.pos, vel |-> a.vel, speed |-> speed, dir |-> dir,
    travel_distance |-> travel_distance,
    travel_raycast |-> TravelRaycast(a.pos, travel_distance, dir),
    debug_num_loops |-> 0, num_queries |-> 0, legs |-> << >> ]
EnterWith(a, speed) ==
  Entered(a, speed, normalized(a.vel), TravelDistance(speed, a.delta_time))
Enter(a) == EnterWith(a, magnitude(a.vel))

\* the loop ends without a (further) collision: lines 395/401, 422-424
Finish(c, collision) ==
  [ c EXCEPT !.pc = "ok",
             !.pos = FinalPos(c.pos, c.travel_distance, c.dir),
             !.num_queries = c.num_queries + 1,
             !.legs = Append(c.legs, [ start |-> c.pos, dir |-> c.dir,
                                       ray |-> c.travel_raycast,
                                       travel_distance |-> c.travel_distance,
                                       reflected |-> FALSE,
                                       collision |-> collision ]) ]

\* lines 404-420: the loop body past the break
Reflected(c, collision, safe, pos, dir, travel_distance, loops) ==
  [ pc |-> IF LoopLimitReached(loops) THEN "err" ELSE "loop",
    pos |-> pos, vel |-> ReflectedVel(dir, c.speed), speed |-> c.speed, dir |-> dir,
    travel_distance |-> travel_distance,
    travel_raycast |-> TravelRaycast(pos, travel_distance, dir),
    debug_num_loops |-> loops,
    num_queries |-> c.num_queries + 1,
    legs |-> Append(c.legs, [ start |-> c.pos, dir |-> c.dir,
                              ray |-> c.travel_raycast,
                              travel_distance |-> c.travel_distance,
                              reflected |-> TRUE, collision |-> collision ]) ]
Reflect(c, collision, safe) ==
  Reflected(c, collision, safe,
            MovedToSafePoint(c.pos, safe, c.dir),
            ReflectedDir(c.vel, collision.intersection.normal),
            RemainingDistance(c.travel_distance, safe),
            c.debug_num_loops + 1)

\* lines 396-402: the loop body up to the break
LoopBody(c, collision, safe) ==
  IF WontHitYet(c.travel_distance, safe) THEN Finish(c, collision)
  ELSE Reflect(c, collision, safe)

\* line 395: while let Some(collision) = ...
WhileLet(c, collision) ==
  IF ~collision.hit THEN Finish(c, collision)
  ELSE LoopBody(c, collision,
                SafeCollisionPointDistance(DistanceTillHit(collision, c.pos)))

\* one evaluation of the loop head and, on Some, of the body
LoopStep(a, c) ==
  WhileLet(c, sweepcast_sphere(a.mesh, c.travel_raycast, a.sphere_radius))

RECURSIVE RunLoop(_, _)
RunLoop(a, c) == IF c.pc = "loop" THEN RunLoop(a, LoopStep(a, c)) ELSE c

Returned(c) ==
  IF c.pc = "ok" THEN [ok |-> TRUE, pos |-> c.pos, vel |-> c.vel]
  ELSE [ok |-> FALSE, error |-> "Collision loop took 3 iterations"]

Arguments(mesh, pos, vel, sphere_radius, delta_time) ==
  [ mesh |-> mesh, pos |-> pos, vel |-> vel,
    sphere_radius |-> sphere_radius, delta_time |-> delta_time ]

MoveSphere(a) == Returned(RunLoop(a, Enter(a)))

\* the whole call; Ok((pos, vel)) or Err(message)
move_sphere_with_full_elastic_collision(mesh, pos, vel, sphere_radius, delta_time) ==
  MoveSphere(Arguments(mesh, pos, vel, sphere_radius, delta_time))

(***************************************************************************)
(* scenes.rs: constants and the play field's collision mesh                *)
(***************************************************************************)
UNIT_SIZE == 16
PONGI_RADIUS == Q(15, 2)
PONGI_BASE_SPEED == QInt(15 * UNIT_SIZE)
WALL_THICKNESS == Q(UNIT_SIZE, 2)
PADDLE_SIZE == QInt(3 * UNIT_SIZE)
FIELD_BOUNDS == RectInt(-10 * UNIT_SIZE, 10 * UNIT_SIZE, 6 * UNIT_SIZE, -6 * UNIT_SIZE)

field_border_left ==
  Rect(QSub(FIELD_BOUNDS.left, WALL_THICKNESS), FIELD_BOUNDS.left,
       FIELD_BOUNDS.bottom, FIELD_BOUNDS.top)
field_border_right ==
  Rect(FIELD_BOUNDS.right, QAdd(FIELD_BOUNDS.right, WALL_THICKNESS),
       FIELD_BOUNDS.bottom, FIELD_BOUNDS.top)
field_border_top ==
  Rect(QSub(FIELD_BOUNDS.left, WALL_THICKNESS), QAdd(FIELD_BOUNDS.right, WALL_THICKNESS),
       FIELD_BOUNDS.top, QSub(FIELD_BOUNDS.top, WALL_THICKNESS))
field_border_bottom ==
  Rect(QSub(FIELD_BOUNDS.left, WALL_THICKNESS), QAdd(FIELD_BOUNDS.right, WALL_THICKNESS),
       QAdd(FIELD_BOUNDS.bottom, WALL_THICKNESS), FIELD_BOUNDS.bottom)

\* lines 280-284: left_wall, right_wall, top_wall, bottom_wall
PlayFieldMesh ==
  << field_border_left, field_border_right, field_border_top, field_border_bottom >>

(***************************************************************************)
(* lib.rs / scenes.rs: one frame of the game                               *)
(***************************************************************************)
CANVAS_WIDTH == 480
CANVAS_HEIGHT == 270
\* const BEAT_LENGTH: f32 = 60.0 / BPM, BPM = 100.0
BEAT_LENGTH == Q(60, 100)

None == "None"
Some(x) == <<"Some", x>>

\* #[derive(Default)] GameplayScene
DefaultScene ==
  [ pongi_pos |-> VZero, pongi_vel |-> VZero,
    time_till_next_beat |-> QZero, paddle_left_pos |-> QZero ]

\* Vec2::from_angle(40.0f32.to_radians()) is not among the source files:
\* the f32 nearest to the cosine and to the sine of the f32 angle
\* 0.69813168, 12852093 / 2^24 and 10784186 / 2^24
FromAngle40 == Vec2(<<12852093, -24>>, <<10784186, -24>>)

\* GameplayScene::reinitialize, lines 155-167
Reinitialized(sc) ==
  [ sc EXCEPT !.pongi_pos = VScale(VInt(8, -4), QInt(UNIT_SIZE)),
              !.pongi_vel = VScale(FromAngle40, PONGI_BASE_SPEED) ]

\* lines 173-179
TimeFactor(fast_time) ==
  IF fast_time = 0 THEN QOne
  ELSE IF fast_time > 0 THEN QInt(fast_time + 1)
  ELSE QDiv(QOne, QInt(Abs(fast_time) + 1))

\* lines 170-181
DeltaTime(in, error) ==
  IF in.game_paused \/ error # None THEN QZero
  ELSE QMul(in.time_delta, TimeFactor(in.fast_time))

\* lines 271-273
RECURSIVE WrappedBeat(_)
WrappedBeat(t) == IF QLt(t, QZero) THEN WrappedBeat(QAdd(t, BEAT_LENGTH)) ELSE t

\* lines 269-273
NextBeat(time_till_next_beat, delta_time) ==
  WrappedBeat(QSub(time_till_next_beat, delta_time))

\* lines 305-310; screen_rect.height() is input.screen_dim.y
MovedPaddle(paddle_left_pos, in) ==
  clamp(QAdd(paddle_left_pos,
             QMul(QDiv(in.mouse_delta_screen_y, in.screen_height), QInt(CANVAS_HEIGHT))),
        FIELD_BOUNDS.top, QSub(FIELD_BOUNDS.bottom, PADDLE_SIZE))

\* a commit whatever the outcome
CommitsAlways(error) == TRUE

\* line 301: if globals.error_happened.is_none()
Commits(error) == error = None

\* lines 288-298: .unwrap_or_else(|error| { ...; (self.pongi_pos, self.pongi_vel) })
Unwrapped(sc, result) ==
  IF result.ok THEN [pos |-> result.pos, vel |-> result.vel]
  ELSE [pos |-> sc.pongi_pos, vel |-> sc.pongi_vel]

\* lines 287-300: the error the frame records
ErrorOf(result) == IF result.ok THEN None ELSE Some(result.error)

\* lines 299-311: what the frame writes back
WrittenBack(sc, in, delta_time, result) ==
  IF Commits(ErrorOf(result))
  THEN [ pongi_pos |-> Unwrapped(sc, result).pos,
         pongi_vel |-> Unwrapped(sc, result).vel,
         time_till_next_beat |-> NextBeat(sc.time_till_next_beat, delta_time),
         paddle_left_pos |-> MovedPaddle(sc.paddle_left_pos, in) ]
  ELSE sc

\* GameplayScene::update_and_draw, lines 169-311: the scene and the error
\* flag after the frame
GameplayUpdate(sc, in, delta_time) ==
  [ delta_time |-> delta_time,
    result |-> move_sphere_with_full_elastic_collision(
                 PlayFieldMesh, sc.pongi_pos, sc.pongi_vel, PONGI_RADIUS, delta_time) ]

\* update_and_draw_internal, lib.rs lines 316-328: init / re-init
Resets(initialized, in) == ~initialized \/ in.reset_pressed
AfterReset(sc, initialized, in) == IF Resets(initialized, in) THEN Reinitialized(sc) ELSE sc
ErrorAfterReset(error, initialized, in) ==
  IF Resets(initialized, in) THEN None ELSE error

\* the inputs of a frame
MaxFrames == 3
FrameInputs ==
  { in \in [ game_paused : BOOLEAN, fast_time : {-1, 0, 3}, time_delta : {QOne},
             mouse_delta_screen_y : {QZero, QInt(54)}, screen_height : {QInt(540)},
             reset_pressed : BOOLEAN ] :
      in.game_paused => in.fast_time = 0 }

(***************************************************************************)
(* Inputs of the resolver                                                  *)
(***************************************************************************)
\* a square arena of zero-thickness walls at x = +-50 and y = +-50,
\* registered left, right, top, bottom
ArenaMesh ==
  << RectInt(-50, -50, -50, 50), RectInt(50, 50, -50, 50),
     RectInt(-50, 50, 50, 50), RectInt(-50, 50, -50, -50) >>
ArenaRadius == QInt(5)

\* bounds of the input sets
MaxGrid == 1
MaxDtHalves == 4

ArenaPositions ==
  { VInt(40 * i, 40 * j) : i, j \in (-MaxGrid)..MaxGrid }
    \cup { Vec2(Q(799, 20), QZero),     \* 5.05 short of the expanded right wall
           Vec2(Q(899, 20), QZero),     \* 0.05 short of it: inside the safety margin
           VInt(39, 37) }               \* on a 3-4-5 line into the expanded corner

ArenaVelocities ==
  { VInt(100, 0), VInt(-100, 0), VInt(0, 100), VInt(0, -100),
    VInt(60, 80), VInt(80, 60), VInt(-60, 80), VInt(80, -60), VInt(-80, -60),
    VInt(30, 40),
    VInt(100, 96) }                     \* speed 138.62..., no f32 value

DeltaTimes == { Q(1, 20), Q(1, 5) } \cup { Q(k, 2) : k \in 0..MaxDtHalves }

PlayFieldPositions == { VInt(8 * UNIT_SIZE, -4 * UNIT_SIZE), VInt(0, 0) }
PlayFieldVelocities == { VInt(192, 144), VInt(-192, 144), VInt(0, -240) }

Inputs ==
  [ mesh : {ArenaMesh}, pos : ArenaPositions, vel : ArenaVelocities,
    sphere_radius : {ArenaRadius}, delta_time : DeltaTimes ]
  \cup
  [ mesh : {PlayFieldMesh}, pos : PlayFieldPositions, vel : PlayFieldVelocities,
    sphere_radius : {PONGI_RADIUS}, delta_time : DeltaTimes ]

(***************************************************************************)
(* State                                                                   *)
(***************************************************************************)
vars ==
  <<args, call, scene, error_happened, is_initialized, last_frame, frames, calc,
    debug_assertions>>

gameVars == <<scene, error_happened, is_initialized, last_frame, frames>>
callVars == <<args, call>>
restVars == <<calc>>
buildVars == <<debug_assertions>>

Idle == [pc |-> "entry"]
NoFrame == [reset |-> FALSE, delta_time |-> QZero, ok |-> TRUE]

\* GameContext::default()
GameInit ==
  /\ scene = DefaultScene
  /\ error_happened = None
  /\ is_initialized = FALSE
  /\ last_frame = NoFrame
  /\ frames = 0

NoCalc == [op |-> "none"]

\* either build
BuildInit == debug_assertions \in BOOLEAN

\* no function is applied
RestInit == calc = NoCalc

(***************************************************************************)
(* Spec: one call of the resolver, on every input of Inputs                *)
(***************************************************************************)
Init ==
  /\ BuildInit
  /\ args \in Inputs
  /\ call = Idle
  /\ GameInit
  /\ RestInit

CallEnter ==
  /\ call.pc = "entry"
  /\ call' = Enter(args)
  /\ UNCHANGED <<buildVars, args, gameVars, restVars>>

\* one pass through the loop body that ends in a reflection
CallReflect ==
  /\ call.pc = "loop"
  /\ call' = LoopStep(args, call)
  /\ call'.pc # "ok"
  /\ UNCHANGED <<buildVars, args, gameVars, restVars>>

\* the loop ends and the call returns Ok
CallFinish ==
  /\ call.pc = "loop"
  /\ call' = LoopStep(args, call)
  /\ call'.pc = "ok"
  /\ UNCHANGED <<buildVars, args, gameVars, restVars>>

Next == CallEnter \/ CallReflect \/ CallFinish

Spec == Init /\ [][Next]_vars

(***************************************************************************)
(* SpecGame: frames of update_and_draw_internal                            *)
(***************************************************************************)
\* no call of the resolver is under way
NoCall ==
  /\ args = Arguments(PlayFieldMesh, VZero, VZero, PONGI_RADIUS, QZero)
  /\ call = Idle

InitGame ==
  /\ BuildInit
  /\ NoCall
  /\ GameInit
  /\ RestInit

FrameWith(in, sc, upd) ==
  /\ scene' = WrittenBack(sc, in, upd.delta_time, upd.result)
  /\ error_happened' = ErrorOf(upd.result)
  /\ last_frame' = [ reset |-> Resets(is_initialized, in),
                     delta_time |-> upd.delta_time, ok |-> upd.result.ok ]

FrameOn(in, sc, err) == FrameWith(in, sc, GameplayUpdate(sc, in, DeltaTime(in, err)))

\* one call of update_and_draw_internal
Frame ==
  /\ frames < MaxFrames
  /\ \E in \in FrameInputs :
       FrameOn(in, AfterReset(scene, is_initialized, in),
               ErrorAfterReset(error_happened, is_initialized, in))
  /\ is_initialized' = TRUE
  /\ frames' = frames + 1
  /\ UNCHANGED <<buildVars, callVars, restVars>>

NextGame == Frame

SpecGame == InitGame /\ [][NextGame]_vars

(***************************************************************************)
(* Properties of one resolver call                                         *)
(***************************************************************************)
Started == call.pc # "entry"
Done == call.pc \in {"ok", "err"}
NumLegs == IF Started THEN Len(call.legs) ELSE 0

\* where leg i ended: the start of the next leg, or the returned position
LegEnd(i) == IF i < Len(call.legs) THEN call.legs[i + 1].start ELSE call.pos

\* the distance moved on leg i, measured along the leg's direction
Travelled(i) == dot(VSub(LegEnd(i), call.legs[i].start), call.legs[i].dir)

\* the distance from the leg's start to the hit its query returned
HitDistance(i) ==
  magnitude(VSub(call.legs[i].collision.intersection.point, call.legs[i].start))

\* every crossing of a ray with an expanded segment of the mesh
AllHits(mesh, ray, radius) ==
  { h \in { Intersect(ray, RectSphereSum(mesh[k], radius)[i].line) :
              k \in 1..Len(mesh), i \in 1..4 } : h.hit }

\* what f32 rounding may add up to over one call, on positions, distances
\* and speeds of a few hundred units: a hundredth of the safety margin
Tolerance == Q(1, 1000)
Near(a, b) == QLe(QAbs(QSub(a, b)), Tolerance)
VNear(p, q) == Near(p.x, q.x) /\ Near(p.y, q.y)

\* what rounding may add up to on a ratio of two lengths
RatioTolerance == Q(1, 100000)

\* C1: whenever a call with delta_time > 0 returns Ok, the magnitude of
\* the returned velocity equals the magnitude of the input velocity within
\* the rounding tolerance, after 0, 1 or 2 reflections, and the velocity
\* is the input velocity itself when the call reflected on nothing.
C1_SpeedConservedWithinTolerance ==
  (call.pc = "ok" /\ QLt(QZero, args.delta_time)) =>
    /\ Near(magnitude(call.vel), magnitude(args.vel))
    /\ call.debug_num_loops = 0 => call.vel = args.vel

\* an Ok return after two reflections of an oblique velocity
C1_Witness ==
  /\ call.pc = "ok"
  /\ call.debug_num_loops = 2
  /\ QLt(QZero, args.delta_time)
  /\ args.vel.x # QZero /\ args.vel.y # QZero
  /\ call.vel # args.vel

\* C2: a call makes at most 3 sweep-cast queries and at most 3
\* reflections; at the loop head fewer than 3 queries have been made and
\* the next step is defined and makes exactly one more; and the call has
\* returned the overflow error once it has reflected 3 times.
C2_Termination ==
  /\ Started => /\ call.num_queries <= 3
                /\ call.debug_num_loops <= call.num_queries
                /\ call.debug_num_loops = 3 => call.pc = "err"
  /\ call.pc = "loop" =>
       /\ call.num_queries < 3
       /\ LoopStep(args, call).pc \in {"loop", "ok", "err"}
       /\ LoopStep(args, call).num_queries = call.num_queries + 1

\* three reflections on three consecutive queries: the overflow error
C2_Witness ==
  /\ call.pc = "err"
  /\ call.num_queries = 3
  /\ \A i \in 1..3 : call.legs[i].reflected

\* C3: a returned call is an Err exactly when it processed a third
\* collision, and an Ok carrying a position and a velocity exactly when it
\* processed 0, 1 or 2.
C3_ErrIffThirdCollision ==
  Done =>
    /\ Returned(call).ok <=> call.debug_num_loops \in 0..2
    /\ ~Returned(call).ok <=> call.debug_num_loops = 3
    /\ Returned(call).ok => Returned(call) = [ok |-> TRUE, pos |-> call.pos, vel |-> call.vel]
    /\ ~Returned(call).ok => DOMAIN Returned(call) = {"ok", "error"}

\* the error is returned as a value
C3_Witness ==
  /\ Done
  /\ ~Returned(call).ok
  /\ Returned(call).error = "Collision loop took 3 iterations"

\* the body passed through: no reflection, velocity unchanged, position
\* advanced by the travel distance along the direction (line 422), which is
\* position + velocity * delta_time up to rounding
PassedThrough ==
  /\ call.pc = "ok"
  /\ call.debug_num_loops = 0
  /\ call.vel = args.vel
  /\ call.pos = FinalPos(args.pos,
                         TravelDistance(magnitude(args.vel), args.delta_time),
                         normalized(args.vel))
  /\ VNear(call.pos, VAdd(args.pos, VScale(args.vel, args.delta_time)))

\* the first query found no hit, or a hit farther than the travel distance
FirstHitBeyondTravel ==
  \/ ~call.legs[1].collision.hit
  \/ QLt(call.legs[1].travel_distance, HitDistance(1))

\* the first query found no hit on its ray, which reaches the travel
\* distance plus the safety margin ahead
RayClear ==
  /\ ~call.legs[1].collision.hit
  /\ call.legs[1].ray = Line(args.pos,
        VAdd(args.pos, VScale(normalized(args.vel),
               QAdd(QMul(magnitude(args.vel), args.delta_time),
                    COLLISION_SAFETY_MARGIN))))

C5_NoBackwardMovement ==
  \A i \in 1..NumLegs :
    call.legs[i].reflected =>
      /\ Near(Travelled(i), QMax(QZero, SafeCollisionPointDistance(HitDistance(i))))
      /\ QLe(QNeg(Tolerance), Travelled(i))

\* far enough to cross every mesh of the inputs from any input position
FarDistance == QInt(1000)
FarRay(start, dir) == Line(start, VAdd(start, VScale(dir, FarDistance)))

\* C6: on every leg of a call the distance moved along the leg's
\* direction is at most the distance from the leg's start to any crossing
\* of an expanded segment ahead of it minus the safety margin, within the
\* rounding tolerance, and every leg ends short of every crossing ahead
\* of it.
C6_NoTunneling ==
  \A i \in 1..NumLegs :
    \A h \in AllHits(args.mesh, FarRay(call.legs[i].start, call.legs[i].dir),
                     args.sphere_radius) :
      /\ QLe(Travelled(i),
             QAdd(QSub(QMul(h.t, FarDistance), COLLISION_SAFETY_MARGIN), Tolerance))
      /\ QLt(Travelled(i), QMul(h.t, FarDistance))

\* a final leg that stopped short of a boundary ahead of it, after a
\* reflection
C6_Witness ==
  /\ call.pc = "ok"
  /\ call.debug_num_loops >= 1
  /\ QLt(QZero, Travelled(NumLegs))
  /\ AllHits(args.mesh, FarRay(call.legs[NumLegs].start, call.legs[NumLegs].dir),
             args.sphere_radius) # {}

\* the velocity on leg i: the input velocity, or the one set at the
\* reflection before (line 409)
LegVel(i) == IF i = 1 THEN args.vel ELSE ReflectedVel(call.legs[i].dir, call.speed)

\* the <<shape, segment>> pair of the hit the query of leg i reported
ReportedSegment(i) ==
  <<call.legs[i].collision.shape, call.legs[i].collision.segment_index>>

\* <<k, i>> is registered before <<l, j>>
RegisteredBefore(ks, lj) == ks[1] < lj[1] \/ (ks[1] = lj[1] /\ ks[2] < lj[2])

\* the ray parameters are equal within epsilon
Tied(t, u) == is_effectively_zero(QSub(t, u))

\* the crossings of the ray of leg i with the expanded segments sum of
\* shape k, hit or not, each with the <<shape, segment>> pair it is on
CrossingsOnShape(i, k, sum) ==
  { [on |-> <<k, j>>, at |-> Intersect(call.legs[i].ray, sum[j].line)] : j \in 1..4 }

\* the crossings of the ray of leg i with the expanded segments of the mesh
CrossingsOnLeg(i) ==
  { c \in UNION { UNION { CrossingsOnShape(i, k, sum) :
                            sum \in {RectSphereSum(args.mesh[k], args.sphere_radius)} } :
                    k \in 1..Len(args.mesh) } :
      c.at.hit }

\* of the crossings cs, those at the ray parameter t, within epsilon
TiedWith(cs, t) == { c \in cs : Tied(c.at.t, t) }

\* the crossings tied are one tie: they are tied with each other, and
\* every crossing of rest is later than each of them by epsilon or more
OneTie(tied, rest) ==
  /\ \A c, d \in tied : Tied(c.at.t, d.at.t)
  /\ \A c \in tied : \A d \in rest : Earlier(c.at.t, d.at.t)

\* the body turns on the hit of leg i before the next query: the next leg
\* runs along the velocity mirrored about that hit's normal and starts a
\* safety margin short of the hit
TurnsOnHit(i) ==
  (call.legs[i].reflected /\ i < NumLegs) =>
    /\ call.legs[i + 1].dir =
         ReflectedDir(LegVel(i), call.legs[i].collision.intersection.normal)
    /\ call.legs[i + 1].start =
         MovedToSafePoint(call.legs[i].start,
                          SafeCollisionPointDistance(HitDistance(i)), call.legs[i].dir)
    /\ VNear(call.legs[i + 1].start,
             VSub(call.legs[i].collision.intersection.point,
                  VScale(call.legs[i].dir, COLLISION_SAFETY_MARGIN)))

\* the crossings of the ray of leg i with the expanded segments
HitsOnLeg(i) == AllHits(args.mesh, call.legs[i].ray, args.sphere_radius)

\* C9 as claimed: the hit a query returns has the smallest ray parameter
\* of all crossings of the ray with any expanded segment of any shape, and
\* the body turns on that hit before the next query.
C9_SmallestHitFirst ==
  \A i \in 1..NumLegs :
    /\ call.legs[i].collision.hit <=> HitsOnLeg(i) # {}
    /\ call.legs[i].collision.hit =>
         \A h \in HitsOnLeg(i) : QLe(call.legs[i].collision.t, h.t)
    /\ TurnsOnHit(i)

\* C9 as amended: a query returns a hit exactly when the ray crosses an
\* expanded segment; no crossing is earlier than the returned hit by
\* epsilon or more, and a crossing that is earlier by less than epsilon
\* belongs to a segment registered after the returned one; the body turns
\* on the returned hit before the next query.
C9_NearestHitFirst ==
  \A i \in 1..NumLegs :
    /\ \A cs \in {CrossingsOnLeg(i)} :
         /\ call.legs[i].collision.hit <=> cs # {}
         /\ call.legs[i].collision.hit =>
              \A c \in cs :
                QLt(c.at.t, call.legs[i].collision.t) =>
                  /\ Tied(call.legs[i].collision.t, c.at.t)
                  /\ RegisteredBefore(ReportedSegment(i), c.on)
    /\ TurnsOnHit(i)

\* a query whose ray crossed two expanded segments at distances that
\* differ by more than epsilon, and one whose ray crossed a segment
\* registered later a rounding error earlier, each followed by the turn
C9_Witness ==
  /\ Started
  /\ call.debug_num_loops >= 1
  /\ \/ /\ call.debug_num_loops >= 2
        /\ \E h \in HitsOnLeg(1) : Earlier(call.legs[1].collision.t, h.t)
     \/ \E h \in HitsOnLeg(1) : QLt(h.t, call.legs[1].collision.t)

\* the hit of leg i was met head-on: the direction of travel is parallel
\* to the wall's normal
HeadOn(i) ==
  Cross(call.legs[i].dir, call.legs[i].collision.intersection.normal) = QZero

\* C10: after exactly one reflection, on a wall met head-on, the returned
\* velocity is the negation of the input velocity.
C10_ReflectionLaw ==
  (call.pc = "ok" /\ call.debug_num_loops = 1 /\ HeadOn(1))
    => call.vel = VNeg(args.vel)

C10_Witness ==
  /\ call.pc = "ok"
  /\ call.debug_num_loops = 1
  /\ HeadOn(1)
  /\ call.vel = VNeg(args.vel)
  /\ args.vel # VZero

\* the scenario: the arena, radius 5, a body at (40, 0) with velocity
\* (100, 0), delta_time 0.2
ScenarioArguments ==
  Arguments(ArenaMesh, VInt(40, 0), VInt(100, 0), ArenaRadius, Q(1, 5))
ScenarioReturned == args = ScenarioArguments /\ Done

\* C11 as claimed: the scenario returns a position with x about 45 (within
\* one unit of 45 less the safety margin), y = 0, and velocity (-100, 0).
C11_ScenarioEndsAtWall ==
  ScenarioReturned =>
    /\ call.pc = "ok"
    /\ QLe(QAbs(QSub(call.pos.x, QSub(QInt(45), COLLISION_SAFETY_MARGIN))), QOne)
    /\ call.pos.y = QZero
    /\ call.vel = VInt(-100, 0)

\* C11 as amended: the scenario returns Ok after one reflection, at the
\* position a safety margin short of x = 45 less the rest of the travel
\* distance (x = 44.9 - 15.1 = 29.8, up to rounding), y = 0, with velocity
\* (-100, 0).
C11_ScenarioBouncesBack ==
  ScenarioReturned =>
    /\ call.pc = "ok"
    /\ call.debug_num_loops = 1
    /\ VNear(call.legs[1].collision.intersection.point, VInt(45, 0))
    /\ VNear(call.legs[2].start, Vec2(Q(449, 10), QZero))
    /\ VNear(call.pos, Vec2(Q(149, 5), QZero))
    /\ call.pos.y = QZero
    /\ call.vel = VInt(-100, 0)

C11_Witness == ScenarioReturned /\ call.pc = "ok" /\ Near(call.pos.x, Q(149, 5))

\* the direction d mirrored about the normals of the hits of legs i..,
\* in the order the call processed them
RECURSIVE MirroredFrom(_, _)
MirroredFrom(d, i) ==
  IF i > NumLegs THEN d
  ELSE IF call.legs[i].reflected
       THEN MirroredFrom(reflected_on_normal(d, call.legs[i].collision.intersection.normal),
                         i + 1)
       ELSE MirroredFrom(d, i + 1)

\* C12: after a reflection the velocity returned on Ok is the input
\* speed times the final direction (line 409), without one it is the
\* input velocity; up to one reflection the final direction is the
\* normalized input velocity mirrored about the normal of the hit; and in
\* every case the returned velocity equals, within the rounding
\* tolerance, the input speed times the normalized input velocity
\* mirrored about the normal of each hit processed, in order; the final
\* leg was travelled in the final direction.
C12_VelocityIsSpeedTimesDirection ==
  call.pc = "ok" =>
    /\ call.debug_num_loops >= 1 => call.vel = VScale(call.dir, magnitude(args.vel))
    /\ call.debug_num_loops = 0 => call.vel = args.vel
    /\ call.debug_num_loops <= 1 => call.dir = MirroredFrom(normalized(args.vel), 1)
    /\ VNear(call.vel,
             VScale(MirroredFrom(normalized(args.vel), 1), magnitude(args.vel)))
    /\ call.legs[NumLegs].dir = call.dir

\* an Ok return after two mirrorings about different normals
C12_Witness ==
  /\ call.pc = "ok"
  /\ call.debug_num_loops = 2
  /\ call.legs[1].collision.intersection.normal
       # call.legs[2].collision.intersection.normal
  /\ VNear(call.vel, VNeg(args.vel))
  /\ call.vel # VNeg(args.vel)

\* C13: when the crossings nearest along the ray are tied (their ray
\* parameters are equal within epsilon, and every other crossing is later
\* than each of them by epsilon or more), the hit a query reports is that
\* of the tied segment registered first (shapes in mesh order, segments in
\* border order), with that segment's point and normal, whether or not a
\* segment registered later is crossed a rounding error earlier.
C13_FirstRegisteredWins ==
  \A i \in 1..NumLegs :
    call.legs[i].collision.hit =>
      \A cs \in {CrossingsOnLeg(i)} :
        \A tied \in {TiedWith(cs, call.legs[i].collision.t)} :
          /\ \E c \in tied :
               /\ c.on = ReportedSegment(i)
               /\ call.legs[i].collision.t = c.at.t
               /\ call.legs[i].collision.intersection.point = c.at.point
          /\ call.legs[i].collision.intersection.normal =
               SegmentNormal(call.legs[i].collision.segment_index)
          /\ OneTie(tied, cs \ tied) =>
               \A c \in tied :
                 c.on = ReportedSegment(i) \/ RegisteredBefore(ReportedSegment(i), c.on)

\* a ray into a corner: the segment registered first is reported although
\* a segment of another shape, registered later, is crossed a rounding
\* error earlier
C13_Witness ==
  /\ Started
  /\ NumLegs >= 1
  /\ call.legs[1].collision.hit
  /\ \E cs \in {CrossingsOnLeg(1)} :
       \E tied \in {TiedWith(cs, call.legs[1].collision.t)} :
         /\ OneTie(tied, cs \ tied)
         /\ \E c \in tied :
              /\ c.on[1] # call.legs[1].collision.shape
              /\ QLt(c.at.t, call.legs[1].collision.t)

\* the Rect invariant
WellFormedRect(r) == QLe(r.left, r.right) /\ QLe(r.bottom, r.top)

\* C14 as claimed: every rectangle registered in the play field's collision
\* mesh satisfies left <= right and bottom <= top.
C14_RegisteredRectsWellFormed ==
  args.mesh = PlayFieldMesh =>
    \A k \in 1..Len(args.mesh) : WellFormedRect(args.mesh[k])

(***************************************************************************)
(* Properties of the frames                                                *)
(***************************************************************************)
\* the frame just run (scene to scene') was not a reset
NoResetStep == ~last_frame'.reset

\* C7 as claimed: once a frame has recorded an error, every later frame
\* short of a reset runs with delta_time 0, keeps the error flag set and
\* leaves pongi_pos and pongi_vel unchanged.
C7_FrozenAfterError ==
  [][ (error_happened # None /\ NoResetStep) =>
        /\ last_frame'.delta_time = QZero
        /\ error_happened' # None
        /\ scene'.pongi_pos = scene.pongi_pos
        /\ scene'.pongi_vel = scene.pongi_vel ]_vars

\* C8: a frame in which the resolver returns Err leaves the scene as it
\* was when GameplayScene::update_and_draw was entered (after the re-init
\* of a reset frame) and records the error; a frame in which it returns Ok
\* records none.
C8_CommitOnlyOnSuccess ==
  [][ /\ ~last_frame'.ok =>
           /\ scene' = IF last_frame'.reset THEN Reinitialized(scene) ELSE scene
           /\ error_happened' # None
      /\ last_frame'.ok => error_happened' = None ]_vars

\* an error recorded in a frame that had time to pass, after the pongi and
\* the paddle had moved
C8_Witness ==
  /\ error_happened # None
  /\ ~last_frame.reset
  /\ QLt(QZero, last_frame.delta_time)
  /\ scene.paddle_left_pos # QZero
  /\ scene.pongi_pos # Reinitialized(DefaultScene).pongi_pos

(***************************************************************************)
(* SpecRect: Rect::to_border_lines on every rectangle of a grid, ordered   *)
(* or not                                                                  *)
(***************************************************************************)
MaxCoord == 1
RectInputs ==
  { RectInt(l, r, b, t) : l, r, b, t \in (-MaxCoord)..MaxCoord }

InitRect ==
  /\ BuildInit
  /\ calc \in { [op |-> "input", rect |-> r] : r \in RectInputs }
  /\ NoCall
  /\ GameInit

ToBorderLines ==
  /\ calc.op = "input"
  /\ calc' = [ op |-> "to_border_lines", rect |-> calc.rect,
               lines |-> to_border_lines(calc.rect) ]
  /\ UNCHANGED <<buildVars, callVars, gameVars>>

NextRect == ToBorderLines

SpecRect == InitRect /\ [][NextRect]_vars

\* C16: to_border_lines returns exactly 4 segments, bottom, right, top,
\* left: (left,bottom)->(right,bottom), (right,bottom)->(right,top),
\* (right,top)->(left,top), (left,top)->(left,bottom); each segment ends
\* where the next starts, the last where the first starts.
C16_BorderLinesOrder ==
  calc.op = "to_border_lines" =>
    /\ Len(calc.lines) = 4
    /\ calc.lines[1] = Line(Vec2(calc.rect.left, calc.rect.bottom),
                            Vec2(calc.rect.right, calc.rect.bottom))
    /\ calc.lines[2] = Line(Vec2(calc.rect.right, calc.rect.bottom),
                            Vec2(calc.rect.right, calc.rect.top))
    /\ calc.lines[3] = Line(Vec2(calc.rect.right, calc.rect.top),
                            Vec2(calc.rect.left, calc.rect.top))
    /\ calc.lines[4] = Line(Vec2(calc.rect.left, calc.rect.top),
                            Vec2(calc.rect.left, calc.rect.bottom))
    /\ \A i \in 1..4 : calc.lines[i].end = calc.lines[(i % 4) + 1].start

\* the border of a rectangle with bottom above top and four different
\* corners
C16_Witness ==
  /\ calc.op = "to_border_lines"
  /\ QLt(calc.rect.top, calc.rect.bottom)
  /\ QLt(calc.rect.left, calc.rect.right)
  /\ calc.lines[1].start # calc.lines[3].start

(***************************************************************************)
(* math.rs / lib.rs: rectangles of the screen and the canvas               *)
(***************************************************************************)
\* f32::floor
Floor(a) == (CHOOSE one \in { FFloor(x) : x \in {a} } : TRUE)

\* impl Mul<Vec2> for Vec2, impl Div<Vec2> for Vec2
VMul(a, b) == Vec2(QMul(a.x, b.x), QMul(a.y, b.y))
VDiv(a, b) == Vec2(QDiv(a.x, b.x), QDiv(a.y, b.y))

pixel_snapped(v) == Vec2(Floor(v.x), Floor(v.y))

\* Point::new(x, y) of two clamped coordinates, unless clamp has panicked
ClampedPoint(x, y) == IF Panicked(x) \/ Panicked(y) THEN Unwinding ELSE Vec2(x, y)

clamped_in_rect(p, rect) ==
  ClampedPoint(clamp(p.x, rect.left, rect.right), clamp(p.y, rect.bottom, rect.top))

from_xy_width_height(x, y, w, h) == Rect(x, QAdd(x, w), y, QAdd(y, h))
from_width_height(w, h) == from_xy_width_height(QZero, QZero, w, h)
from_point(p, w, h) == from_xy_width_height(p.x, p.y, w, h)
from_dimension(d) == from_xy_width_height(QZero, QZero, d.x, d.y)
from_point_dimension(p, d) == from_xy_width_height(p.x, p.y, d.x, d.y)

RectPos(r) == Vec2(r.left, r.bottom)
RectDim(r) == Vec2(QSub(r.right, r.left), QSub(r.top, r.bottom))
RectWidth(r) == QSub(r.right, r.left)
RectHeight(r) == QSub(r.top, r.bottom)
center(r) == VAdd(RectPos(r), VScale(RectDim(r), Q(1, 2)))

centered_in_rect(self, target) ==
  from_point_dimension(
    VAdd(RectPos(target), VScale(VSub(RectDim(target), RectDim(self)), Q(1, 2))),
    RectDim(self))

\* the stretch that fills the target instead of fitting into it
ScaleFactorToFill(self, target) ==
  IF QLt(QDiv(RectWidth(self), RectHeight(self)),
         QDiv(RectWidth(target), RectHeight(target)))
  THEN QDiv(RectWidth(target), RectWidth(self))
  ELSE QDiv(RectHeight(target), RectHeight(self))

\* lines 466-475
ScaleFactor(self, target) ==
  IF QLt(QDiv(RectWidth(self), RectHeight(self)),
         QDiv(RectWidth(target), RectHeight(target)))
  THEN QDiv(RectHeight(target), RectHeight(self))
  ELSE QDiv(RectWidth(target), RectWidth(self))

\* lines 477-480
StretchedBy(self, scale_factor) ==
  from_point(RectPos(self), QMul(RectWidth(self), scale_factor),
             QMul(RectHeight(self), scale_factor))

stretched_to_fit(self, target) == StretchedBy(self, ScaleFactor(self, target))

canvas_blit_rect(screen_rect, canvas_rect) ==
  centered_in_rect(stretched_to_fit(canvas_rect, screen_rect), screen_rect)

\* lib.rs lines 593-594: blit_rect.right -= 1.0; blit_rect.bottom -= 1.0
ShrunkForClamping(blit_rect) ==
  [ blit_rect EXCEPT !.right = QSub(blit_rect.right, QOne),
                     !.bottom = QSub(blit_rect.bottom, QOne) ]

\* lib.rs lines 596-597: blit_rect.right += 1.0; blit_rect.bottom += 1.0
RestoredAfterClamping(blit_rect) ==
  [ blit_rect EXCEPT !.right = QAdd(blit_rect.right, QOne),
                     !.bottom = QAdd(blit_rect.bottom, QOne) ]

\* lib.rs line 599; a panic in clamped_in_rect ends the call
CanvasPosOf(clamped_point, blit_rect, canvas_rect) ==
  IF HasPanicked(clamped_point) THEN Unwinding
  ELSE pixel_snapped(VMul(RectDim(canvas_rect),
                          VDiv(VSub(clamped_point, RectPos(blit_rect)),
                               RectDim(blit_rect))))

\* lib.rs lines 593-599, given the blit rectangle less its last column and
\* row
CanvasPosClamping(screen_point, shrunk_rect, canvas_rect) ==
  CanvasPosOf(clamped_in_rect(screen_point, shrunk_rect),
              RestoredAfterClamping(shrunk_rect), canvas_rect)

\* lib.rs lines 592-599, given the blit rectangle
CanvasPosIn(screen_point, blit_rect, canvas_rect) ==
  CanvasPosClamping(screen_point, ShrunkForClamping(blit_rect), canvas_rect)

screen_pos_to_canvas_pos(screen_point, screen_rect, canvas_rect) ==
  CanvasPosIn(screen_point, canvas_blit_rect(screen_rect, canvas_rect), canvas_rect)

(***************************************************************************)
(* SpecCanvas: canvas_blit_rect and screen_pos_to_canvas_pos as            *)
(* update_and_draw_internal calls them, on the game's canvas and the       *)
(* screen rectangles of windows of several sizes                           *)
(***************************************************************************)
\* lib.rs line 360
CanvasRect == from_width_height(QInt(CANVAS_WIDTH), QInt(CANVAS_HEIGHT))

\* input.screen_dim: whole multiples of the canvas; windows wider, higher
\* and narrower than the canvas, of sizes whose ratios are no f32 values;
\* a window less than 1 wide
MaxScreen == 3
ScreenDims ==
  { VInt(CANVAS_WIDTH * k, CANVAS_HEIGHT * k) : k \in 1..MaxScreen }
    \cup { VInt(1366, 768), VInt(1000, 1000), VInt(800, 600), VInt(270, 480),
           VInt(123, 69), Vec2(Q(1, 4), Q(1, 2)) }

\* lib.rs line 359
ScreenRects == { from_dimension(d) : d \in ScreenDims }

\* input.mouse_pos_screen: left of, on and right of the screen's left and
\* right edges, and the like below and above; and the middle of the screen
ScreenPoints(screen_rect) ==
  { Vec2(QAdd(x, QInt(dx)), QAdd(y, QInt(dy))) :
      x \in {screen_rect.left, screen_rect.right},
      y \in {screen_rect.bottom, screen_rect.top},
      dx, dy \in {-1, 0, 1} }
    \cup { center(screen_rect) }

CanvasInput(s, c, p) ==
  [op |-> "input", screen_rect |-> s, canvas_rect |-> c, screen_point |-> p]

InitCanvas ==
  /\ BuildInit
  /\ \E s \in ScreenRects :
       \E p \in ScreenPoints(s) : calc = CanvasInput(s, CanvasRect, p)
  /\ NoCall
  /\ GameInit

BlitRect ==
  /\ calc.op = "input"
  /\ calc' = [ calc EXCEPT !.op = "canvas_blit_rect" ]
               @@ [ blit_rect |-> canvas_blit_rect(calc.screen_rect, calc.canvas_rect) ]
  /\ UNCHANGED <<buildVars, callVars, gameVars>>

ScreenPosToCanvasPos ==
  /\ calc.op = "input"
  /\ calc' = [ calc EXCEPT !.op = "screen_pos_to_canvas_pos" ]
               @@ [ canvas_pos |-> screen_pos_to_canvas_pos(
                                     calc.screen_point, calc.screen_rect, calc.canvas_rect) ]
  /\ UNCHANGED <<buildVars, callVars, gameVars>>

NextCanvas == BlitRect \/ ScreenPosToCanvasPos

SpecCanvas == InitCanvas /\ [][NextCanvas]_vars

\* C17 as claimed: the canvas position has x in [0, canvas width - 1] and
\* y in [0, canvas height - 1], for screen points inside or outside the
\* blit rectangle.
C17_CanvasPosInCanvas ==
  calc.op = "screen_pos_to_canvas_pos" =>
    /\ ~HasPanicked(calc.canvas_pos)
    /\ QLe(QZero, calc.canvas_pos.x)
    /\ QLe(calc.canvas_pos.x, QSub(RectWidth(calc.canvas_rect), QOne))
    /\ QLe(QZero, calc.canvas_pos.y)
    /\ QLe(calc.canvas_pos.y, QSub(RectHeight(calc.canvas_rect), QOne))

\* C18: the blit rectangle has the canvas's aspect ratio, lies inside the
\* screen rectangle and is centered in it (its margins left and right,
\* and below and above, are equal), each within the rounding tolerance,
\* and it is exactly as wide or as high as the screen.
C18_BlitRectFitsCentered ==
  calc.op = "canvas_blit_rect" =>
    /\ QLe(QAbs(QSub(QDiv(RectWidth(calc.blit_rect), RectHeight(calc.blit_rect)),
                     QDiv(RectWidth(calc.canvas_rect), RectHeight(calc.canvas_rect)))),
           RatioTolerance)
    /\ QLe(QSub(calc.screen_rect.left, Tolerance), calc.blit_rect.left)
    /\ QLe(calc.blit_rect.right, QAdd(calc.screen_rect.right, Tolerance))
    /\ QLe(QSub(calc.screen_rect.bottom, Tolerance), calc.blit_rect.bottom)
    /\ QLe(calc.blit_rect.top, QAdd(calc.screen_rect.top, Tolerance))
    /\ Near(QSub(calc.blit_rect.left, calc.screen_rect.left),
            QSub(calc.screen_rect.right, calc.blit_rect.right))
    /\ Near(QSub(calc.blit_rect.bottom, calc.screen_rect.bottom),
            QSub(calc.screen_rect.top, calc.blit_rect.top))
    /\ \/ RectWidth(calc.blit_rect) = RectWidth(calc.screen_rect)
       \/ RectHeight(calc.blit_rect) = RectHeight(calc.screen_rect)

\* a blit rectangle with bars left and right of it that differ by
\* rounding, on a screen wider than the canvas
C18_Witness ==
  /\ calc.op = "canvas_blit_rect"
  /\ RectHeight(calc.blit_rect) = RectHeight(calc.screen_rect)
  /\ QLt(calc.screen_rect.left, calc.blit_rect.left)
  /\ QLt(calc.blit_rect.right, calc.screen_rect.right)
  /\ QSub(calc.blit_rect.left, calc.screen_rect.left)
       # QSub(calc.screen_rect.right, calc.blit_rect.right)

(***************************************************************************)
(* math.rs: the camera                                                     *)
(***************************************************************************)
translated_by(r, translation) ==
  Rect(QAdd(r.left, translation.x), QAdd(r.right, translation.x),
       QAdd(r.bottom, translation.y), QAdd(r.top, translation.y))
translated_to_origin(r) == translated_by(r, VNeg(RectPos(r)))
translated_to_pos(r, p) == translated_by(translated_to_origin(r), p)
centered(r) == translated_by(r, VNeg(VScale(RectDim(r), Q(1, 2))))
centered_in_position(r, p) == centered(translated_to_pos(r, p))

\* Camera::new; z_near and z_far play no part in the conversions
CameraNew(p, frustum_width, frustum_height) ==
  [ frustum |-> centered(from_point(p, frustum_width, frustum_height)),
    zoom_level |-> QOne ]

\* Camera::pos
CamPos(cam) == center(cam.frustum)

canvas_to_world(cam, point) ==
  VAdd(VDivScalar(VSub(point, VScale(RectDim(cam.frustum), Q(1, 2))), cam.zoom_level),
       pixel_snapped(CamPos(cam)))

\* the conversion back around the camera's position as it is, not snapped
\* to whole pixels
world_to_canvas_unsnapped(cam, point) ==
  VAdd(VScale(VSub(point, CamPos(cam)), cam.zoom_level),
       VScale(RectDim(cam.frustum), Q(1, 2)))

world_to_canvas(cam, point) ==
  VAdd(VScale(VSub(point, pixel_snapped(CamPos(cam))), cam.zoom_level),
       VScale(RectDim(cam.frustum), Q(1, 2)))

zoom_to_world_point(cam, world_point, new_zoom_level) ==
  [ frustum |-> centered_in_position(
                  cam.frustum,
                  VAdd(VScale(VSub(CamPos(cam), world_point),
                              QDiv(cam.zoom_level, new_zoom_level)),
                       world_point)),
    zoom_level |-> new_zoom_level ]

pan(cam, canvas_move_distance) ==
  [ cam EXCEPT !.frustum =
      translated_by(cam.frustum, VDivScalar(VNeg(canvas_move_distance), cam.zoom_level)) ]

(***************************************************************************)
(* SpecCamera: a camera that is panned and zoomed a few times, and points  *)
(* converted there and back                                                *)
(***************************************************************************)
MaxCameraMoves == 2
\* a pixel, a few pixels, parts of a pixel, and a pan far out of the scene
PanDistances == { VInt(1, 0), VInt(-3, 2), Vec2(Q(1, 2), Q(-5, 4)), VInt(-10000000, 0) }
ZoomLevels == { Q(1, 2), QOne, QTwo, QInt(3) }
ZoomPoints == { VInt(7, -4), Vec2(Q(-25, 2), QInt(10)) }
\* math.rs lines 772 and 778: the unit test's points
TestCanvasPoint == Vec2(Q(3, 4), Q(-23, 100))
TestWorldPoint == Vec2(Q(-123, 10), QInt(134))

CanvasPoints == { TestCanvasPoint, VInt(0, 0), VInt(479, 269), VInt(100, 33) }
\* the last one is the f32 next below 131072
WorldPoints ==
  { TestWorldPoint, VInt(0, 0), VInt(-240, 135), Vec2(Q(16777215, 128), QZero) }

\* lib.rs line 321: the game's camera
GameCamera == CameraNew(VZero, QInt(CANVAS_WIDTH), QInt(CANVAS_HEIGHT))

\* math.rs line 770: the unit test's camera
TestCamera == CameraNew(VZero, QInt(100), QInt(100))

InitCamera ==
  /\ BuildInit
  /\ \E cam \in {GameCamera, TestCamera} :
       calc = [op |-> "camera", moves |-> 0, cam |-> cam]
  /\ NoCall
  /\ GameInit

Pan ==
  /\ calc.op = "camera"
  /\ calc.moves < MaxCameraMoves
  /\ \E d \in PanDistances :
       calc' = [ calc EXCEPT !.cam = pan(calc.cam, d), !.moves = @ + 1 ]
  /\ UNCHANGED <<buildVars, callVars, gameVars>>

ZoomToWorldPoint ==
  /\ calc.op = "camera"
  /\ calc.moves < MaxCameraMoves
  /\ \E p \in ZoomPoints, z \in ZoomLevels :
       calc' = [ calc EXCEPT !.cam = zoom_to_world_point(calc.cam, p, z), !.moves = @ + 1 ]
  /\ UNCHANGED <<buildVars, callVars, gameVars>>

CanvasToWorldAndBack ==
  /\ calc.op = "camera"
  /\ \E p \in CanvasPoints :
       calc' = [ calc EXCEPT !.op = "canvas_to_world_and_back" ]
                 @@ [ point |-> p,
                      back |-> world_to_canvas(calc.cam, canvas_to_world(calc.cam, p)) ]
  /\ UNCHANGED <<buildVars, callVars, gameVars>>

WorldToCanvasAndBack ==
  /\ calc.op = "camera"
  /\ \E p \in WorldPoints :
       calc' = [ calc EXCEPT !.op = "world_to_canvas_and_back" ]
                 @@ [ point |-> p,
                      back |-> canvas_to_world(calc.cam, world_to_canvas(calc.cam, p)) ]
  /\ UNCHANGED <<buildVars, callVars, gameVars>>

NextCamera == Pan \/ ZoomToWorldPoint \/ CanvasToWorldAndBack \/ WorldToCanvasAndBack

SpecCamera == InitCamera /\ [][NextCamera]_vars

RoundTripped == calc.op \in {"canvas_to_world_and_back", "world_to_canvas_and_back"}

\* math.rs lines 773-776 and 779-782: what the unit test asserts of a point
\* and the point converted there and back
WithinEpsilon(a, b) == is_effectively_zero(distance(a, b))

\* a thousandth of a pixel
RoundTripTolerance == Q(1, 1000)

\* C19 as claimed: a canvas point converted to the world and back, and a
\* world point converted to the canvas and back, is within epsilon of the
\* point it was, for every camera, also after pans and zooms to a positive
\* zoom level.
C19_RoundTripWithinEpsilon == RoundTripped => WithinEpsilon(calc.point, calc.back)

\* 2^-19, thirty-two times the rounding error of one f32 operation
RelativeTolerance == Q(1, 524288)

\* the largest coordinate of a vector, without its sign
Largest(v) == QMax(QAbs(v.x), QAbs(v.y))

\* what the conversions add and subtract: half the frustum's dimension
\* and the camera's position snapped to whole pixels
HalfDim(cam) == VScale(RectDim(cam.frustum), Q(1, 2))
SnappedPos(cam) == pixel_snapped(CamPos(cam))

\* the largest of the values a round trip adds and subtracts, measured in
\* the units of the point converted: for a canvas point the point, the
\* point that came back, half the frustum's dimension, and the world point
\* in between and the camera's position times the zoom level; for a world
\* point the point, the point that came back, the camera's position, and
\* the canvas point in between and half the frustum's dimension divided by
\* the zoom level
RoundTripScale ==
  IF calc.op = "canvas_to_world_and_back"
  THEN QMax(QMax(Largest(calc.point), Largest(calc.back)),
            QMax(Largest(HalfDim(calc.cam)),
                 QMul(calc.cam.zoom_level,
                      QMax(Largest(canvas_to_world(calc.cam, calc.point)),
                           Largest(SnappedPos(calc.cam))))))
  ELSE QMax(QMax(Largest(calc.point), Largest(calc.back)),
            QMax(Largest(SnappedPos(calc.cam)),
                 QDiv(QMax(Largest(world_to_canvas(calc.cam, calc.point)),
                           Largest(HalfDim(calc.cam))),
                      calc.cam.zoom_level)))

\* C19, amended: the point converted there and back is within rounding
\* error of the point it was: their distance is at most 2^-19 times the
\* largest of the values the round trip adds and subtracts, for the camera
\* as constructed and after pans and zooms to a positive zoom level; it is
\* within epsilon for the unit test's camera as constructed and the unit
\* test's two points, and not within epsilon for the game's camera as
\* constructed and these points.
C19_CameraRoundTrip ==
  RoundTripped =>
    /\ QLe(distance(calc.point, calc.back), QMul(RelativeTolerance, RoundTripScale))
    /\ (calc.cam = TestCamera /\ calc.point \in {TestCanvasPoint, TestWorldPoint})
         => WithinEpsilon(calc.point, calc.back)
    /\ (calc.cam = GameCamera /\ calc.point \in {TestCanvasPoint, TestWorldPoint})
         => ~WithinEpsilon(calc.point, calc.back)

\* a round trip through a zoomed camera far out of the scene, whose
\* position is between pixels: the point comes back more than a thousandth
\* of a pixel off
C19_Witness ==
  /\ calc.op = "canvas_to_world_and_back"
  /\ calc.moves = MaxCameraMoves
  /\ calc.cam.zoom_level # QOne
  /\ pixel_snapped(CamPos(calc.cam)) # CamPos(calc.cam)
  /\ calc.point # VZero
  /\ QLt(RoundTripTolerance, distance(calc.point, calc.back))

(***************************************************************************)
(* lib.rs: GameInput and its buttons                                       *)
(***************************************************************************)
\* GameButton::new
NewButton == [ num_state_transitions |-> 0, is_pressed |-> FALSE ]

\* a button that counts every call of set_state
set_state_counting_calls(button, is_pressed) ==
  [ num_state_transitions |-> button.num_state_transitions + 1,
    is_pressed |-> is_pressed ]

set_state(button, is_pressed) ==
  IF button.is_pressed # is_pressed
  THEN [ num_state_transitions |-> button.num_state_transitions + 1,
         is_pressed |-> is_pressed ]
  ELSE button

clear_transitions(button) == [ button EXCEPT !.num_state_transitions = 0 ]

\* GameButton::toggle
toggle(button) ==
  IF button.is_pressed THEN set_state(button, FALSE) ELSE set_state(button, TRUE)

\* the input actions of lib.rs 298-354; register_input_action files an
\* action by the ending of its name
RegularActions == { "debug_time_speedup", "debug_time_slowdown" }
ToggleActions == { "debug_pause_game_toggle", "debug_highres_drawing_toggle" }
OneshotActions ==
  { "debug_reset_gamestate_oneshot", "debug_hotreload_code_oneshot",
    "debug_hotreload_assets_oneshot" }
InputActions == RegularActions \cup ToggleActions \cup OneshotActions

\* an action name that was never registered
UnregisteredActions == { "debug_unregistered_action" }

\* GameInput::new: no action is registered
NewInput ==
  [ buttons |-> << >>,
    buttons_toggle |-> << >>,
    buttons_oneshot |-> << >>,
    mouse_button_left |-> NewButton,
    mouse_button_middle |-> NewButton,
    mouse_button_right |-> NewButton,
    mouse_wheel_delta |-> 0 ]

\* HashMap::insert: a value under a key that is there already is replaced
Insert(map, key, value) ==
  [ k \in DOMAIN map \cup {key} |-> IF k = key THEN value ELSE map[k] ]

\* action.ends_with("toggle"), action.ends_with("oneshot"), on the names
\* of the model
EndsWithToggle(action) == action \in ToggleActions
EndsWithOneshot(action) == action \in OneshotActions

register_input_action(input, action) ==
  IF EndsWithToggle(action)
  THEN [ input EXCEPT !.buttons_toggle = Insert(@, action, NewButton) ]
  ELSE IF EndsWithOneshot(action)
  THEN [ input EXCEPT !.buttons_oneshot = Insert(@, action, NewButton) ]
  ELSE [ input EXCEPT !.buttons = Insert(@, action, NewButton) ]

\* GameInput::new followed by register_input_action for every action of
\* lib.rs 298-354
RECURSIVE RegisterAll(_, _)
RegisterAll(input, actions) ==
  IF actions = {} THEN input
  ELSE LET a == CHOOSE x \in actions : TRUE
       IN  RegisterAll(register_input_action(input, a), actions \ {a})
RegisteredInput == RegisterAll(NewInput, InputActions)

\* the buttons of a GameInput, all of them pub: those of the three maps,
\* by map and action, and the three mouse buttons
ButtonMaps == { "buttons", "buttons_toggle", "buttons_oneshot" }
MouseButtons == { "mouse_button_left", "mouse_button_middle", "mouse_button_right" }
MapButton(field, action) == [ field |-> field, action |-> action ]
MouseButton(field) == [ field |-> field, action |-> "" ]
ButtonsOf(input) ==
  UNION { { MapButton(f, a) : a \in DOMAIN input[f] } : f \in ButtonMaps }
    \cup { MouseButton(f) : f \in MouseButtons }
ButtonAt(input, ref) ==
  IF ref.field \in MouseButtons THEN input[ref.field] ELSE input[ref.field][ref.action]
WithButton(input, ref, button) ==
  IF ref.field \in MouseButtons
  THEN [ input EXCEPT ![ref.field] = button ]
  ELSE [ input EXCEPT ![ref.field][ref.action] = button ]

\* the button an action's name stands for, in the order get_button and
\* process_button_event look it up
ButtonOfAction(input, action) ==
  IF action \in DOMAIN input.buttons THEN MapButton("buttons", action)
  ELSE IF action \in DOMAIN input.buttons_toggle THEN MapButton("buttons_toggle", action)
  ELSE MapButton("buttons_oneshot", action)

\* panic!("Button for input action '{}' does not exist", action): the
\* thread unwinds and the call returns nothing
NoSuchButton(action) ==
  [ panicked |-> "Button for input action '" \o action \o "' does not exist" ]

get_button(input, action) ==
  IF action \in DOMAIN input.buttons THEN input.buttons[action]
  ELSE IF action \in DOMAIN input.buttons_toggle THEN input.buttons_toggle[action]
  ELSE IF action \in DOMAIN input.buttons_oneshot THEN input.buttons_oneshot[action]
  ELSE NoSuchButton(action)

\* the queries on the button get_button returned; a panic in get_button
\* ends them
PressEventOf(button) ==
  IF HasPanicked(button) THEN button
  ELSE button.is_pressed /\ button.num_state_transitions > 0
ReleaseEventOf(button) ==
  IF HasPanicked(button) THEN button
  ELSE ~button.is_pressed /\ button.num_state_transitions > 0
TransitionEventOf(button) ==
  IF HasPanicked(button) THEN button ELSE button.num_state_transitions > 0
PressedOf(button) == IF HasPanicked(button) THEN button ELSE button.is_pressed

had_press_event(input, action) == PressEventOf(get_button(input, action))

had_release_event(input, action) == ReleaseEventOf(get_button(input, action))

\* a toggle button that follows the key instead of toggling on its press
process_button_event_following(input, action, is_pressed) ==
  IF action \in DOMAIN input.buttons
  THEN [ input EXCEPT !.buttons[action] = set_state(@, is_pressed) ]
  ELSE IF action \in DOMAIN input.buttons_toggle
  THEN [ input EXCEPT !.buttons_toggle[action] = set_state(@, is_pressed) ]
  ELSE IF action \in DOMAIN input.buttons_oneshot
  THEN IF is_pressed
       THEN [ input EXCEPT !.buttons_oneshot[action] = set_state(@, is_pressed) ]
       ELSE input
  ELSE NoSuchButton(action)

had_transition_event(input, action) == TransitionEventOf(get_button(input, action))

process_button_event(input, action, is_pressed) ==
  IF action \in DOMAIN input.buttons
  THEN [ input EXCEPT !.buttons[action] = set_state(@, is_pressed) ]
  ELSE IF action \in DOMAIN input.buttons_toggle
  THEN IF is_pressed
       THEN [ input EXCEPT !.buttons_toggle[action] = set_state(@, ~@.is_pressed) ]
       ELSE input
  ELSE IF action \in DOMAIN input.buttons_oneshot
  THEN IF is_pressed
       THEN [ input EXCEPT !.buttons_oneshot[action] = set_state(@, is_pressed) ]
       ELSE input
  ELSE NoSuchButton(action)

\* a one-shot button released with its transition left standing
ReleasedOneshot(button) == set_state(button, FALSE)

\* lines 246-249, for one button
ResetOneshot(button) == clear_transitions(set_state(button, FALSE))

prepare_for_next_frame(input) ==
  [ buttons |-> [ a \in DOMAIN input.buttons |-> clear_transitions(input.buttons[a]) ],
    buttons_toggle |->
      [ a \in DOMAIN input.buttons_toggle |-> clear_transitions(input.buttons_toggle[a]) ],
    buttons_oneshot |->
      [ a \in DOMAIN input.buttons_oneshot |->
          ResetOneshot(clear_transitions(input.buttons_oneshot[a])) ],
    mouse_button_left |-> clear_transitions(input.mouse_button_left),
    mouse_button_middle |-> clear_transitions(input.mouse_button_middle),
    mouse_button_right |-> clear_transitions(input.mouse_button_right),
    mouse_wheel_delta |-> 0 ]

is_pressed(input, action) == PressedOf(get_button(input, action))

(***************************************************************************)
(* SpecInput: what a platform layer can do to a GameInput in a frame and   *)
(* the end of the frame: button events, the buttons' own pub methods       *)
(* called on a button of one of the pub maps or on a mouse button, and the *)
(* registration of an action.  calc holds the GameInput, the GameInput     *)
(* before the last operation, the GameInput the frame began with, the      *)
(* last operation's arguments, and of the operations since the frame       *)
(* began: their number, the buttons pressed, the buttons set_state or      *)
(* toggle was called on, and the buttons clear_transitions or              *)
(* register_input_action was called on.  An event for an action that was   *)
(* never registered panics, and nothing runs after it.                     *)
(***************************************************************************)
MaxEvents == 2
MaxInputFrames == 1
ButtonEvents ==
  [ action : InputActions \cup UnregisteredActions, is_pressed : BOOLEAN ]

\* the last operation on the GameInput returned
InputAlive == ~HasPanicked(calc.input)

InputOps ==
  { "register_input_action", "process_button_event", "set_state", "toggle",
    "clear_transitions", "prepare_for_next_frame" }

NoButton == MapButton("", "")

FrameBegins(op, input, before, frame) ==
  [ op |-> op, input |-> input, before |-> before, frame_start |-> input,
    button |-> NoButton, is_pressed |-> FALSE,
    count |-> 0, pressed |-> {}, direct |-> {}, cleared |-> {}, frame |-> frame ]

InitInput ==
  /\ BuildInit
  /\ calc = FrameBegins("register_input_action", RegisteredInput, NewInput, 0)
  /\ NoCall
  /\ GameInit

\* the operation may run: the last one returned, and the frame has room
InputReady ==
  /\ calc.op \in InputOps
  /\ InputAlive
  /\ calc.count < MaxEvents

\* the record of an operation op with arguments button and pressed_now that
\* left the GameInput as input
Operated(op, input, button, pressed_now, pressed, direct, cleared) ==
  [ calc EXCEPT !.op = op, !.input = input, !.before = calc.input,
                !.button = button, !.is_pressed = pressed_now,
                !.count = @ + 1,
                !.pressed = @ \cup pressed,
                !.direct = @ \cup direct,
                !.cleared = @ \cup cleared ]

ProcessButtonEvent ==
  /\ InputReady
  /\ \E e \in ButtonEvents :
       calc' = Operated("process_button_event",
                        process_button_event(calc.input, e.action, e.is_pressed),
                        ButtonOfAction(calc.input, e.action), e.is_pressed,
                        IF e.is_pressed THEN {ButtonOfAction(calc.input, e.action)} ELSE {},
                        {}, {})
  /\ UNCHANGED <<buildVars, callVars, gameVars>>

\* button.set_state(is_pressed) on a button of the GameInput
SetState ==
  /\ InputReady
  /\ \E ref \in ButtonsOf(calc.input), pressed_now \in BOOLEAN :
       calc' = Operated("set_state",
                        WithButton(calc.input, ref,
                                   set_state(ButtonAt(calc.input, ref), pressed_now)),
                        ref, pressed_now,
                        IF pressed_now THEN {ref} ELSE {}, {ref}, {})
  /\ UNCHANGED <<buildVars, callVars, gameVars>>

\* button.toggle() on a button of the GameInput
Toggle ==
  /\ InputReady
  /\ \E ref \in ButtonsOf(calc.input) :
       calc' = Operated("toggle",
                        WithButton(calc.input, ref, toggle(ButtonAt(calc.input, ref))),
                        ref, ~ButtonAt(calc.input, ref).is_pressed,
                        IF ButtonAt(calc.input, ref).is_pressed THEN {} ELSE {ref},
                        {ref}, {})
  /\ UNCHANGED <<buildVars, callVars, gameVars>>

\* button.clear_transitions() on a button of the GameInput
ClearTransitions ==
  /\ InputReady
  /\ \E ref \in ButtonsOf(calc.input) :
       calc' = Operated("clear_transitions",
                        WithButton(calc.input, ref,
                                   clear_transitions(ButtonAt(calc.input, ref))),
                        ref, FALSE, {}, {}, {ref})
  /\ UNCHANGED <<buildVars, callVars, gameVars>>

\* register_input_action for an action registered before, or not
RegisterInputAction ==
  /\ InputReady
  /\ \E a \in InputActions \cup UnregisteredActions :
       calc' = Operated("register_input_action",
                        register_input_action(calc.input, a),
                        ButtonOfAction(register_input_action(calc.input, a), a), FALSE,
                        {}, {},
                        {ButtonOfAction(register_input_action(calc.input, a), a)})
  /\ UNCHANGED <<buildVars, callVars, gameVars>>

PrepareForNextFrame ==
  /\ calc.op \in InputOps
  /\ InputAlive
  /\ calc.frame < MaxInputFrames
  /\ calc' = FrameBegins("prepare_for_next_frame", prepare_for_next_frame(calc.input),
                         calc.input, calc.frame + 1)
  /\ UNCHANGED <<buildVars, callVars, gameVars>>

NextInput ==
  \/ ProcessButtonEvent
  \/ SetState
  \/ Toggle
  \/ ClearTransitions
  \/ RegisterInputAction
  \/ PrepareForNextFrame

SpecInput == InitInput /\ [][NextInput]_vars

\* an operation on the GameInput has returned
InputOperated == calc.op \in InputOps /\ InputAlive

\* the last operation was process_button_event(action, is_pressed)
LastEvent(action, pressed_now) ==
  /\ calc.op = "process_button_event"
  /\ calc.button.action = action
  /\ calc.is_pressed = pressed_now

\* nothing but process_button_event has touched the button since the
\* frame began
OnlyEvents(ref) == ref \notin calc.direct \cup calc.cleared

OneshotButton(a) == MapButton("buttons_oneshot", a)

\* what C20 says of every frame and every caller, and C20 as amended says
\* too: after prepare_for_next_frame a one-shot button is unpressed with no
\* state transitions; a release event leaves a one-shot button as it was;
\* had_press_event of a one-shot action is true only in a frame in which
\* the button was pressed
OneshotPressedAndReset(a) ==
  /\ calc.op = "prepare_for_next_frame" => calc.input.buttons_oneshot[a] = NewButton
  /\ LastEvent(a, FALSE) =>
       calc.input.buttons_oneshot[a] = calc.before.buttons_oneshot[a]
  /\ had_press_event(calc.input, a) => OneshotButton(a) \in calc.pressed

C21_ToggleButtons ==
  InputOperated =>
    \A a \in DOMAIN calc.input.buttons_toggle :
      /\ LastEvent(a, TRUE)
           => /\ calc.input.buttons_toggle[a].is_pressed
                   = ~calc.before.buttons_toggle[a].is_pressed
              /\ calc.input.buttons_toggle[a].num_state_transitions
                   = calc.before.buttons_toggle[a].num_state_transitions + 1
      /\ LastEvent(a, FALSE)
           => calc.input.buttons_toggle[a] = calc.before.buttons_toggle[a]
      /\ calc.op = "prepare_for_next_frame" =>
           /\ calc.input.buttons_toggle[a].is_pressed
                = calc.before.buttons_toggle[a].is_pressed
           /\ calc.input.buttons_toggle[a].num_state_transitions = 0

\* a press event that switches a toggle button off again
C21_Witness ==
  /\ InputAlive
  /\ \E a \in ToggleActions :
       /\ LastEvent(a, TRUE)
       /\ calc.before.buttons_toggle[a].is_pressed
       /\ ~calc.input.buttons_toggle[a].is_pressed

\* the buttons the frame began with that are still there
FrameButtons == ButtonsOf(calc.input) \cap ButtonsOf(calc.frame_start)

\* is_pressed differs from its value at the start of the frame exactly
\* when num_state_transitions is odd
ParityHolds(ref) ==
  ButtonAt(calc.input, ref).is_pressed # ButtonAt(calc.frame_start, ref).is_pressed
    <=> ButtonAt(calc.input, ref).num_state_transitions % 2 = 1

\* set_state, called on a button or through toggle, adds one to
\* num_state_transitions exactly when the new state differs, and sets the
\* state
SetStateCounts ==
  calc.op \in {"set_state", "toggle"} =>
    /\ ButtonAt(calc.input, calc.button).is_pressed = calc.is_pressed
    /\ ButtonAt(calc.input, calc.button).num_state_transitions =
         ButtonAt(calc.before, calc.button).num_state_transitions
           + (IF ButtonAt(calc.before, calc.button).is_pressed # calc.is_pressed
              THEN 1 ELSE 0)

\* had_press_event and had_release_event are never both true for an
\* action, and each implies had_transition_event
EventsExclusive ==
  \A a \in InputActions :
    /\ ~(had_press_event(calc.input, a) /\ had_release_event(calc.input, a))
    /\ had_press_event(calc.input, a) => had_transition_event(calc.input, a)
    /\ had_release_event(calc.input, a) => had_transition_event(calc.input, a)

\* C26 as claimed: set_state counts a transition exactly when the state
\* changes; within a frame every button's is_pressed differs from its value
\* at the start of the frame exactly when its num_state_transitions is odd;
\* had_press_event and had_release_event are never both true for an
\* action, and each implies had_transition_event.
C26_ParityInEveryFrame ==
  InputOperated =>
    /\ SetStateCounts
    /\ \A ref \in FrameButtons : ParityHolds(ref)
    /\ EventsExclusive

\* C26 as amended: the same, with the parity for every button, mouse
\* buttons included, on which neither clear_transitions nor
\* register_input_action was called since the frame began.
C26_TransitionCounting ==
  InputOperated =>
    /\ SetStateCounts
    /\ \A ref \in FrameButtons \ calc.cleared : ParityHolds(ref)
    /\ EventsExclusive

\* a button pressed and released in one frame: two transitions, the state
\* it began the frame with, and a release event
C26_Witness ==
  /\ calc.op \in {"process_button_event", "set_state", "toggle"}
  /\ InputAlive
  /\ \E a \in InputActions :
       /\ get_button(calc.input, a).num_state_transitions = 2
       /\ get_button(calc.input, a).is_pressed = get_button(calc.frame_start, a).is_pressed
       /\ had_release_event(calc.input, a)

(***************************************************************************)
(* Properties of the frames: the play field                                *)
(***************************************************************************)
\* the play field shrunk by the pongi's radius
ShrunkField ==
  Rect(QAdd(FIELD_BOUNDS.left, PONGI_RADIUS), QSub(FIELD_BOUNDS.right, PONGI_RADIUS),
       QSub(QMax(FIELD_BOUNDS.bottom, FIELD_BOUNDS.top), PONGI_RADIUS),
       QAdd(QMin(FIELD_BOUNDS.bottom, FIELD_BOUNDS.top), PONGI_RADIUS))

\* C22 as claimed: from reinitialize on, while no error is reported, the
\* pongi's centre stays inside the play field shrunk by the radius.
C22_ArenaContainment ==
  (is_initialized /\ error_happened = None) =>
    /\ QLe(ShrunkField.left, scene.pongi_pos.x)
    /\ QLe(scene.pongi_pos.x, ShrunkField.right)
    /\ QLe(ShrunkField.top, scene.pongi_pos.y)
    /\ QLe(scene.pongi_pos.y, ShrunkField.bottom)

\* C25 as claimed: the first call of update_and_draw_internal runs the
\* reset block and sets is_initialized; is_initialized never becomes false
\* again; on later calls the error flag is reset only in frames that run
\* the reset block, which are those with a press of the reset key.
C25_ResetOnlyOnInitOrKey ==
  [][ /\ ~is_initialized => (last_frame'.reset /\ is_initialized')
      /\ is_initialized => is_initialized'
      /\ (is_initialized /\ error_happened # None /\ error_happened' = None)
           => last_frame'.reset ]_vars

(***************************************************************************)
(* Properties of one resolver call: time standing still, and the travel    *)
(* distance                                                                *)
(***************************************************************************)
\* C23 as claimed: a call with delta_time = 0 returns Ok with the input
\* position and the input velocity.
C23_NoTimeNoChange ==
  (Done /\ args.delta_time = QZero) =>
    /\ call.pc = "ok"
    /\ call.pos = args.pos
    /\ call.vel = args.vel

\* the travel distance that remains after leg i
RemainingAfter(i) ==
  IF i < Len(call.legs) THEN call.legs[i + 1].travel_distance ELSE call.travel_distance

\* the distances moved on legs 1..n, each along its leg's direction
RECURSIVE TravelledUpTo(_)
TravelledUpTo(n) == IF n = 0 THEN QZero ELSE QAdd(TravelledUpTo(n - 1), Travelled(n))

\* C24 as claimed: the remaining travel distance stays within
\* [0, speed * delta_time] and never increases from one iteration to the
\* next, and on Ok the distances moved on all legs add up to
\* speed * delta_time (up to rounding).
C24_TravelDistanceAccounting ==
  Started =>
    /\ \A i \in 1..NumLegs :
         /\ QLe(QZero, RemainingAfter(i))
         /\ QLe(RemainingAfter(i), TravelDistance(call.speed, args.delta_time))
         /\ QLe(RemainingAfter(i), call.legs[i].travel_distance)
    /\ call.pc = "ok" =>
         Near(TravelledUpTo(NumLegs), TravelDistance(call.speed, args.delta_time))

=============================================================================
